---- MODULE Spec2Model ----
(***************************************************************************)
(* The schema-driven list editor (ListEditor) of the content-value editor. *)
(* The repository carries three versions of the component:                 *)
(*   "shipped" src/components/section/ValueEditors.tsx:214 (the one        *)
(*             ComponentListEditor imports),                               *)
(*   "memo"    src/unnamed/part_002:397 (React.memo, itemsRef),            *)
(*   "plain"   src/unnamed/part_002:901.                                   *)
(* The variable impl says which of them the modelled editor runs.          *)
(*                                                                         *)
(* JavaScript values are tagged records; a string is a sequence of         *)
(* one-character strings; an object is the sequence of its entries in      *)
(* insertion order.                                                        *)
(***************************************************************************)
EXTENDS Integers, Sequences, FiniteSets, TLC

VARIABLES impl, status, value, schema, isConfiguring, last, steps,
          renamed, cascaded, inferredAtMount, uploads,
          dispatcher, type, jsonMode, internalJson, jsonError,
          route, metaJson, formData, saves,
          token, isAuthenticated, isLoading, location, pending,
          rows, deletes, deleted

\* impl, status, value, schema, isConfiguring: the editor and its host form.
\* last: the last event, with the value and schema it started from and the
\*   values it handed to onChange.  steps: number of events so far.
\* renamed: the last rename A -> B, live while only fields B were edited since.
\* cascaded: a field was renamed or removed in this session.
\* inferredAtMount: the list was non-empty at mount, so the schema was inferred.
\* uploads: the file uploads in flight, each with what its handler closed over.
\* dispatcher: the component that picks the editor for a type tag,
\*   "ValueEditors" (ValueEditors.tsx:380, part_002:617, part_002:1160) or
\*   "ValueEditor" (pages/sections/SectionEditor.tsx:32).
\* type, jsonMode, internalJson, jsonError: its props and state.
vars == <<impl, status, value, schema, isConfiguring, last, steps,
          renamed, cascaded, inferredAtMount, uploads,
          dispatcher, type, jsonMode, internalJson, jsonError,
          route, metaJson, formData, saves,
          token, isAuthenticated, isLoading, location, pending,
          rows, deletes, deleted>>

\* route, metaJson, formData, saves: a page, blog or portfolio editor: the
\*   route shown, its metadata text, the entered form data, and the
\*   create/update requests in flight.
\* token, isAuthenticated, isLoading, location, pending: localStorage's
\*   token, the AuthProvider's state, the hash route, and the API requests
\*   in flight.
\* rows, deletes, deleted: a list page: the rows displayed, the deletes in
\*   flight (each with the rows its handler closed over), and the rows whose
\*   backend delete succeeded.
submitVars == <<route, metaJson, formData, saves>>
authVars == <<token, isAuthenticated, isLoading, location, pending>>
deleteVars == <<rows, deletes, deleted>>

\* the state of the dispatcher, and the state of the list editor
dispatchVars == <<dispatcher, type, jsonMode, internalJson, jsonError>>
listVars == <<impl, schema, isConfiguring, renamed, cascaded, inferredAtMount,
              uploads>>

(* ------------------------------ bounds --------------------------------- *)
MaxItems == 2
MaxFields == 3
MaxSteps == 3
MaxUploads == 2
MaxPending == 2
MaxDeletes == 2

(* --------------------------- JavaScript values ------------------------- *)
Str(s) == [t |-> "string", s |-> s]
Arr(a) == [t |-> "array", a |-> a]
Obj(e) == [t |-> "object", e |-> e]
Num(n) == [t |-> "number", n |-> n]
Bool(b) == [t |-> "boolean", b |-> b]
Null == [t |-> "null"]
Undefined == [t |-> "undefined"]
\* an empty slot of a sparse array; reading it yields undefined
Hole == [t |-> "hole"]
Entry(k, v) == [k |-> k, v |-> v]

Rep(c, n) == [i \in 1..n |-> c]

kTitle == <<"t","i","t","l","e">>
kDescription == <<"d","e","s","c","r","i","p","t","i","o","n">>
kImage == <<"i","m","a","g","e">>
kHeroVideo == <<"h","e","r","o","V","i","d","e","o">>
kCta == <<"c","t","a">>
kName == <<"n","a","m","e">>
kExtra == <<"e","x","t","r","a">>
kUrl == <<"u","r","l">>
kLink == <<"l","i","n","k">>
kText == <<"t","e","x","t">>
kVideo == <<"v","i","d","e","o">>
sHello == <<"H","e","l","l","o">>
sButton == <<"B","u","t","t","o","n">>
sHash == <<"#">>

Digits == <<"0","1","2","3","4","5","6","7","8","9">>

\* String(n) for 0 <= n < 100
NumToString(n) ==
  IF n < 10 THEN <<Digits[n + 1]>>
  ELSE <<Digits[(n \div 10) + 1], Digits[(n % 10) + 1]>>

LowerOf ==
  [A |-> "a", B |-> "b", C |-> "c", D |-> "d", E |-> "e", F |-> "f",
   G |-> "g", H |-> "h", I |-> "i", J |-> "j", K |-> "k", L |-> "l",
   M |-> "m", N |-> "n", O |-> "o", P |-> "p", Q |-> "q", R |-> "r",
   S |-> "s", T |-> "t", U |-> "u", V |-> "v", W |-> "w", X |-> "x",
   Y |-> "y", Z |-> "z"]

\* String.prototype.toLowerCase
toLowerCase(s) ==
  [i \in 1..Len(s) |-> IF s[i] \in DOMAIN LowerOf THEN LowerOf[s[i]] ELSE s[i]]

\* String.prototype.includes
includes(s, sub) ==
  \E i \in 0..(Len(s) - Len(sub)) : SubSeq(s, i + 1, i + Len(sub)) = sub

\* typeof v === 'object' && v !== null (arrays included, as in JavaScript)
IsNonNullObject(v) == v.t \in {"object", "array"}

\* own enumerable entries of a value, as the spread {...v} copies them
Spread(v) ==
  CASE v.t = "object" -> v.e
    [] v.t = "array" -> [i \in 1..Len(v.a) |-> Entry(NumToString(i - 1), v.a[i])]
    [] v.t = "string" -> [i \in 1..Len(v.s) |-> Entry(NumToString(i - 1), Str(<<v.s[i]>>))]
    [] OTHER -> <<>>

\* Object.keys throws a TypeError for null and undefined
ObjectKeysThrows(v) == v.t \in {"null", "undefined", "hole"}

\* Object.keys(v), in property order
ObjectKeys(v) == [i \in 1..Len(Spread(v)) |-> Spread(v)[i].k]

KeySet(e) == {e[i].k : i \in 1..Len(e)}

\* k in obj, for an entry sequence
HasKey(e, k) == k \in KeySet(e)

\* obj[k]; undefined when the property is absent
GetKey(e, k) ==
  IF HasKey(e, k) THEN e[CHOOSE i \in 1..Len(e) : e[i].k = k].v ELSE Undefined

\* obj[k] = v: an existing property keeps its place, a new one goes last
SetKey(e, k, v) ==
  IF HasKey(e, k)
  THEN [i \in 1..Len(e) |-> IF e[i].k = k THEN Entry(k, v) ELSE e[i]]
  ELSE Append(e, Entry(k, v))

\* delete obj[k]
DeleteKey(e, k) == SelectSeq(e, LAMBDA x : x.k # k)

\* 'url' in val, for a non-null object or array
InValue(k, v) == HasKey(Spread(v), k)

\* firstItem[key]
Prop(v, k) == GetKey(Spread(v), k)

\* const items = Array.isArray(value) ? value : []
Items(v) == IF v.t = "array" THEN v.a ELSE <<>>

\* [...items]: the copy has undefined where items has an empty slot
Dense(items) ==
  [i \in 1..Len(items) |-> IF items[i].t = "hole" THEN Undefined ELSE items[i]]

\* a[index] = x on an array a (index 1-based here); writing past the end
\* leaves empty slots in between
AssignIndex(a, index, x) ==
  [i \in 1..(IF index > Len(a) THEN index ELSE Len(a)) |->
     IF i = index THEN x ELSE IF i <= Len(a) THEN a[i] ELSE Hole]

\* a[index]; undefined past the end and for an empty slot
ElemAt(a, index) ==
  IF index \in 1..Len(a) /\ a[index].t # "hole" THEN a[index] ELSE Undefined

(* ------------------------------ the schema ----------------------------- *)
FieldTypes == {"text", "longText", "image", "video", "button", "list"}
Field(k, t) == [key |-> k, type |-> t]
SchemaKeys(s) == {s[i].key : i \in 1..Len(s)}

\* the type heuristics of the inference effect
InferTypeCaseSensitive(key, val) ==
  IF val.t = "string" /\ Len(val.s) > 60 THEN "longText"
  ELSE IF val.t = "array" THEN "list"
  ELSE IF IsNonNullObject(val)
       THEN IF InValue(kUrl, val) /\ includes(key, kVideo) THEN "video"
            ELSE IF InValue(kUrl, val) THEN "image"
            ELSE IF InValue(kLink, val) THEN "button"
            ELSE "text"
  ELSE "text"

InferType(key, val) ==
  IF val.t = "string" /\ Len(val.s) > 60 THEN "longText"
  ELSE IF val.t = "array" THEN "list"
  ELSE IF IsNonNullObject(val)
       THEN IF InValue(kUrl, val) /\ includes(toLowerCase(key), kVideo) THEN "video"
            ELSE IF InValue(kUrl, val) THEN "image"
            ELSE IF InValue(kLink, val) THEN "button"
            ELSE "text"
  ELSE "text"

\* Object.keys(firstItem).map(key => ({ key, type }))
InferSchemaFirstKeyOnly(firstItem) ==
  [i \in 1..(IF Len(ObjectKeys(firstItem)) > 0 THEN 1 ELSE 0) |->
     Field(ObjectKeys(firstItem)[i], InferType(ObjectKeys(firstItem)[i],
                                               Prop(firstItem, ObjectKeys(firstItem)[i])))]

InferSchema(firstItem) ==
  [i \in 1..Len(ObjectKeys(firstItem)) |->
     Field(ObjectKeys(firstItem)[i], InferType(ObjectKeys(firstItem)[i],
                                               Prop(firstItem, ObjectKeys(firstItem)[i])))]

DefaultSchemaSwapped == <<Field(kDescription, "longText"), Field(kTitle, "text")>>

DefaultSchema == <<Field(kTitle, "text"), Field(kDescription, "longText")>>

\* body of the inference effect: the schema it leaves, given that it runs
EffectSchemaAlwaysInfers(items, sch) ==
  IF Len(items) > 0 THEN InferSchema(items[1]) ELSE DefaultSchema

EffectSchema(items, sch) ==
  IF Len(sch) = 0
  THEN IF Len(items) > 0 THEN InferSchema(items[1]) ELSE DefaultSchema
  ELSE sch

\* the effect throws when it calls Object.keys on a null first item
EffectThrows(items, sch) ==
  Len(sch) = 0 /\ Len(items) > 0 /\ ObjectKeysThrows(items[1])

(* --------------------------- the item widgets -------------------------- *)
kAlt == <<"a","l","t">>
kCaption == <<"c","a","p","t","i","o","n">>

\* JavaScript truthiness, as used by value || ''
Truthy(v) ==
  CASE v.t = "string" -> Len(v.s) > 0
    [] v.t = "number" -> v.n # 0
    [] v.t = "boolean" -> v.b
    [] v.t \in {"null", "undefined"} -> FALSE
    [] OTHER -> TRUE

\* MediaEditor: const data = object ? value : { url: value || '' }
MediaData(v) ==
  IF IsNonNullObject(v) THEN Spread(v)
  ELSE <<Entry(kUrl, IF Truthy(v) THEN v ELSE Str(<<>>))>>

\* ButtonEditor: const data = object ? value : { text: '', link: '' | '#' }
ButtonData(im, v) ==
  IF IsNonNullObject(v) THEN Spread(v)
  ELSE <<Entry(kText, Str(<<>>)),
         Entry(kLink, IF im = "memo" THEN Str(sHash) ELSE Str(<<>>))>>

\* strings the user types into an input
TypedStrings == {sHello}

\* handleAddItem: the item built from the schema, field by field
RECURSIVE NewItemFrom(_, _)
NewItemFrom(sch, acc) ==
  IF sch = <<>> THEN acc
  ELSE LET f == Head(sch)
           v == CASE f.type \in {"text", "longText"} -> Str(<<>>)
                  [] f.type \in {"image", "video"} -> Obj(<<Entry(kUrl, Str(<<>>))>>)
                  [] f.type = "button" ->
                       Obj(<<Entry(kText, Str(sButton)), Entry(kLink, Str(sHash))>>)
                  [] f.type = "list" -> Arr(<<>>)
       IN NewItemFrom(Tail(sch), SetKey(acc, f.key, v))

NewItemNoMedia(sch) ==
  NewItemFrom(SelectSeq(sch, LAMBDA f : f.type \notin {"image", "video"}), <<>>)

NewItem(sch) == NewItemFrom(sch, <<>>)

\* the values the widget of a field of type ty hands to onUpdate, when the
\* item holds cur under the field's key
WidgetValues(im, ty, cur) ==
  CASE ty \in {"text", "longText"} -> {Str(s) : s \in TypedStrings}
    [] ty \in {"image", "video"} ->
         {Obj(SetKey(MediaData(cur), f, Str(s))) :
            f \in {kUrl, IF ty = "video" THEN kCaption ELSE kAlt}, s \in TypedStrings}
    [] ty = "button" ->
         {Obj(SetKey(ButtonData(im, cur), f, Str(s))) :
            f \in {kText, kLink}, s \in TypedStrings}
    [] ty = "list" ->
         \* the nested ListEditor appends one item built from its own schema
         {Arr(Append(Items(cur), Obj(NewItem(EffectSchema(Items(cur), <<>>)))))}

(* ------------------------- render and the effect ----------------------- *)
\* a row reads item[field.key]; that throws for a null or undefined item
RenderThrows(items, sch) ==
  Len(sch) > 0 /\ \E i \in 1..Len(items) : items[i].t \in {"null", "undefined"}

\* does the inference effect run after the render that follows an event
\*   shipped: deps [items, schema.length]   memo: deps [items.length]
\*   plain:   deps [] (mount only)
EffectRuns(im, oldValue, oldSchema, newValue, newSchema, called) ==
  CASE im = "shipped" ->
         called \/ newValue.t # "array" \/ Len(newSchema) # Len(oldSchema)
    [] im = "memo" -> Len(Items(newValue)) # Len(Items(oldValue))
    [] OTHER -> FALSE

NoKey == <<>>
NoRename == [live |-> FALSE, from |-> NoKey, to |-> NoKey]

\* an upload in flight: the editor position it started from, what the
\* handler closed over (the media value's data, the list's items), and
\* whether the editor instance that started it is still mounted
Upload(index, key, data, items) ==
  [index |-> index, key |-> key, data |-> data, items |-> items, live |-> TRUE]
NoUpload == [index |-> 0, key |-> NoKey, data |-> <<>>, items |-> <<>>,
             live |-> FALSE]

\* MediaEditor.isUploading of the editor of row index, field key
IsUploadingNever(index, key) == FALSE

IsUploading(index, key) ==
  \E u \in uploads : u.live /\ u.index = index /\ u.key = key

History(op, idx, key, newKey, ty, val, calls) ==
  [op |-> op, idx |-> idx, key |-> key, newKey |-> newKey, type |-> ty,
   val |-> val, calls |-> calls, value |-> value, schema |-> schema,
   toast |-> "none", upload |-> NoUpload, uploading |-> IsUploading(idx, key)]

\* the media editor of row u.index, field u.key is the same instance after a
\* render of items under sch: the row is still rendered and the schema
\* still has a media field under that key
InstanceStays(u, items, sch) ==
  /\ u.index \in 1..Len(items) /\ items[u.index].t # "hole"
  /\ \E f \in 1..Len(sch) : sch[f].key = u.key /\ sch[f].type \in {"image", "video"}

\* state after an event handler set the schema to sch and called onChange
\* with each value of calls (the host form stores the last one), followed by
\* the re-render and the inference effect
CommitUploads(sch, calls, h, ups) ==
  LET newValue == IF calls = <<>> THEN value ELSE calls[Len(calls)]
      runs == EffectRuns(impl, value, schema, newValue, sch, calls # <<>>)
      throws == RenderThrows(Items(newValue), sch)
                  \/ (runs /\ EffectThrows(Items(newValue), sch))
      sch2 == IF runs /\ ~throws THEN EffectSchema(Items(newValue), sch) ELSE sch
  IN /\ value' = newValue
     /\ schema' = sch2
     /\ status' = IF throws \/ RenderThrows(Items(newValue), sch2)
                  THEN "crashed" ELSE "mounted"
     /\ last' = h
     /\ steps' = steps + 1
     /\ cascaded' = (cascaded \/ h.op \in {"renameField", "removeField"})
     /\ renamed' =
          IF h.op = "renameField"
          THEN [live |-> TRUE, from |-> h.key, to |-> h.newKey]
          ELSE IF h.op = "updateItem" /\ renamed.live /\ h.key = renamed.to
          THEN renamed
          ELSE NoRename
     /\ uploads' =
          {[u EXCEPT !.live =
              u.live /\ status' = "mounted" /\ InstanceStays(u, Items(newValue), sch2)] :
             u \in ups}
     /\ UNCHANGED <<impl, inferredAtMount>>
     /\ UNCHANGED <<dispatchVars, submitVars, authVars, deleteVars>>

Commit(sch, calls, h) == CommitUploads(sch, calls, h, uploads)

(* ------------------------------- actions ------------------------------- *)
NoHistory == [op |-> "none", idx |-> 0, key |-> NoKey, newKey |-> NoKey,
              type |-> "", val |-> Undefined, calls |-> <<>>,
              value |-> Undefined, schema |-> <<>>,
              toast |-> "none", upload |-> NoUpload, uploading |-> FALSE]

\* first render (empty schema) and the inference effect
Mount ==
  /\ status = "unmounted"
  /\ LET throws == EffectThrows(Items(value), <<>>)
         sch == IF throws THEN <<>> ELSE EffectSchema(Items(value), <<>>)
     IN /\ schema' = sch
        /\ status' = IF throws \/ RenderThrows(Items(value), sch)
                     THEN "crashed" ELSE "mounted"
  /\ last' = History("mount", 0, NoKey, NoKey, "", Undefined, <<>>)
  /\ inferredAtMount' = (Len(Items(value)) > 0)
  /\ UNCHANGED <<impl, value, isConfiguring, steps, renamed, cascaded, uploads>>
  /\ UNCHANGED <<dispatchVars, submitVars, authVars, deleteVars>>

Ready == status = "mounted" /\ steps < MaxSteps

ToggleConfiguring ==
  /\ Ready
  /\ isConfiguring' = ~isConfiguring
  /\ last' = History("toggle", 0, NoKey, NoKey, "", Undefined, <<>>)
  /\ steps' = steps + 1
  /\ UNCHANGED <<impl, status, value, schema, renamed, cascaded, inferredAtMount,
                 uploads>>
  /\ UNCHANGED <<dispatchVars, submitVars, authVars, deleteVars>>

\* the add-item button: always there in shipped; in memo and plain the
\* empty-list button is hidden while the schema panel is open
AddItemVisible ==
  impl = "shipped" \/ Len(Items(value)) > 0 \/ ~isConfiguring

handleAddItem ==
  /\ Ready /\ AddItemVisible
  /\ Len(Items(value)) < MaxItems
  /\ Commit(schema, <<Arr(Append(Dense(Items(value)), Obj(NewItem(schema))))>>,
            History("addItem", 0, NoKey, NoKey, "", Undefined,
                    <<Arr(Append(Dense(Items(value)), Obj(NewItem(schema))))>>))
  /\ UNCHANGED isConfiguring

\* items with the element at index (1-based here) taken out
RemoveAtDropsHead(items, index) ==
  [i \in 1..(Len(items) - 1) |-> items[i + 1]]

RemoveAt(items, index) ==
  [i \in 1..(Len(items) - 1) |-> IF i < index THEN items[i] ELSE items[i + 1]]

\* memo: items.filter((_, i) => i !== index), which also skips empty slots;
\* shipped and plain: const n = [...items]; n.splice(index, 1)
ItemsWithout(im, items, index) ==
  IF im = "memo" THEN SelectSeq(RemoveAt(items, index), LAMBDA x : x.t # "hole")
  ELSE RemoveAt(Dense(items), index)

\* a row is rendered for every index that is not an empty slot
RowAt(index) ==
  index \in 1..Len(Items(value)) /\ Items(value)[index].t # "hole"

handleRemoveItem(index) ==
  /\ Ready
  /\ RowAt(index)
  /\ Commit(schema, <<Arr(ItemsWithout(impl, Items(value), index))>>,
            History("removeItem", index, NoKey, NoKey, "", Undefined,
                    <<Arr(ItemsWithout(impl, Items(value), index))>>))
  /\ UNCHANGED isConfiguring

\* newItems[index] = { ...newItems[index], [key]: val }
UpdateAtReplacesItem(items, index, key, val) ==
  [items EXCEPT ![index] = Obj(<<Entry(key, val)>>)]

UpdateAt(items, index, key, val) ==
  AssignIndex(Dense(items), index,
              Obj(SetKey(Spread(ElemAt(items, index)), key, val)))

\* the url input of a media editor is disabled while it uploads
UrlInputDisabled(index, f, val) ==
  /\ schema[f].type \in {"image", "video"}
  /\ IsUploading(index, schema[f].key)
  /\ Prop(val, kUrl) # GetKey(MediaData(Prop(Items(value)[index], schema[f].key)), kUrl)

handleUpdateItem(index, f) ==
  /\ Ready
  /\ RowAt(index)
  /\ f \in 1..Len(schema)
  /\ \E val \in WidgetValues(impl, schema[f].type,
                             Prop(Items(value)[index], schema[f].key)) :
       /\ ~UrlInputDisabled(index, f, val)
       /\ Commit(schema, <<Arr(UpdateAt(Items(value), index, schema[f].key, val))>>,
              History("updateItem", index, schema[f].key, NoKey, schema[f].type, val,
                      <<Arr(UpdateAt(Items(value), index, schema[f].key, val))>>))
  /\ UNCHANGED isConfiguring

(* ------------------------------- uploads ------------------------------- *)
\* the url the upload collaborator answers with
sUploadedUrl == <<"/","u">>

\* the items the row's onUpdate starts from when the response arrives:
\* memo reads itemsRef.current, shipped and plain the items of the render
\* in which the upload started
UploadBase(im, u) == IF im = "memo" THEN Items(value) ELSE u.items

\* handleFileChange after the await: the calls of onChange it makes
UploadCallsAlsoOnFailure(im, u, ok) ==
  <<Arr(UpdateAt(UploadBase(im, u), u.index, u.key,
                 Obj(SetKey(u.data, kUrl, Str(IF ok THEN sUploadedUrl ELSE <<>>)))))>>

UploadCalls(im, u, ok) ==
  IF ok
  THEN <<Arr(UpdateAt(UploadBase(im, u), u.index, u.key,
                      Obj(SetKey(u.data, kUrl, Str(sUploadedUrl)))))>>
  ELSE <<>>

\* handleFileChange up to the await: a file was picked in the media editor
\* of row index, field f (the upload button is disabled while it uploads)
StartUpload(index, f) ==
  /\ Ready
  /\ RowAt(index)
  /\ f \in 1..Len(schema)
  /\ schema[f].type \in {"image", "video"}
  /\ ~IsUploading(index, schema[f].key)
  /\ Cardinality(uploads) < MaxUploads
  /\ LET u == Upload(index, schema[f].key,
                     MediaData(Prop(Items(value)[index], schema[f].key)),
                     Items(value))
     IN CommitUploads(schema, <<>>,
                      [History("uploadStart", index, schema[f].key, NoKey,
                               schema[f].type, Undefined, <<>>)
                         EXCEPT !.upload = u],
                      uploads \cup {u})
  /\ UNCHANGED isConfiguring

\* the collaborator answered with a url: handleChange('url', response.url),
\* toast.success, and setIsUploading(false) in the finally block
UploadSucceeds(u) ==
  /\ Ready
  /\ u \in uploads
  /\ CommitUploads(schema, UploadCalls(impl, u, TRUE),
                   [History("uploadDone", u.index, u.key, NoKey, "",
                            Str(sUploadedUrl), UploadCalls(impl, u, TRUE))
                      EXCEPT !.toast = "success", !.upload = u],
                   uploads \ {u})
  /\ UNCHANGED isConfiguring

\* the collaborator rejected: toast.error in the catch block, and
\* setIsUploading(false) in the finally block
UploadFails(u) ==
  /\ Ready
  /\ u \in uploads
  /\ CommitUploads(schema, UploadCalls(impl, u, FALSE),
                   [History("uploadFailed", u.index, u.key, NoKey, "",
                            Undefined, UploadCalls(impl, u, FALSE))
                      EXCEPT !.toast = "error", !.upload = u],
                   uploads \ {u})
  /\ UNCHANGED isConfiguring

(* ---------------------------- schema panel ----------------------------- *)
\* items.map(item => { const n = { ...item }; delete n[key]; return n })
RemoveKeyFromFirstItemOnly(items, key) ==
  [i \in 1..Len(items) |->
     IF i = 1 THEN Obj(DeleteKey(Spread(items[i]), key)) ELSE items[i]]

RemoveKeyFromItems(items, key) ==
  [i \in 1..Len(items) |->
     IF items[i].t = "hole" THEN Hole ELSE Obj(DeleteKey(Spread(items[i]), key))]

\* items.map(item => { const n = { ...item };
\*   if (oldKey in n) { n[newKey] = n[oldKey]; delete n[oldKey] } return n })
RenameKeyInItemsCopy(items, oldKey, newKey) ==
  [i \in 1..Len(items) |->
     LET e == Spread(items[i])
     IN IF HasKey(e, oldKey) THEN Obj(SetKey(e, newKey, GetKey(e, oldKey)))
        ELSE Obj(e)]

RenameKeyInItems(items, oldKey, newKey) ==
  [i \in 1..Len(items) |->
     LET e == Spread(items[i])
     IN IF items[i].t = "hole" THEN Hole
        ELSE IF HasKey(e, oldKey)
        THEN Obj(DeleteKey(SetKey(e, newKey, GetKey(e, oldKey)), oldKey))
        ELSE Obj(e)]

\* memo and plain: handleRemoveField; shipped: the button's inline handler,
\* which only splices the schema
handleRemoveField(idx) ==
  /\ Ready /\ isConfiguring
  /\ idx \in 1..Len(schema)
  /\ LET calls == IF impl = "shipped" THEN <<>>
                  ELSE <<Arr(RemoveKeyFromItems(Items(value), schema[idx].key))>>
     IN Commit(RemoveAt(schema, idx), calls,
               [History("removeField", idx, schema[idx].key, NoKey,
                        schema[idx].type, Undefined, calls)
                  EXCEPT !.toast = IF impl = "shipped" THEN "none" ELSE "success"])
  /\ UNCHANGED isConfiguring

\* keys the user can type into the key input of a field
RenameKeys == {kName, kImage, <<>>}

\* memo and plain: handleRenameField; shipped: the input's inline handler,
\* which only writes the schema entry
handleRenameField(idx, newKey) ==
  /\ Ready /\ isConfiguring
  /\ idx \in 1..Len(schema)
  /\ newKey # schema[idx].key
  /\ LET calls == IF impl = "shipped" THEN <<>>
                  ELSE <<Arr(RenameKeyInItems(Items(value), schema[idx].key, newKey))>>
     IN Commit([schema EXCEPT ![idx].key = newKey], calls,
               History("renameField", idx, schema[idx].key, newKey,
                       schema[idx].type, Undefined, calls))
  /\ UNCHANGED isConfiguring

kFieldPrefix == <<"f","i","e","l","d","_">>

\* newSchema[idx].type = newType
RetypeAtResetsKey(sch, idx, newType) ==
  [sch EXCEPT ![idx] = Field(kFieldPrefix \o NumToString(idx), newType)]

RetypeAt(sch, idx, newType) == [sch EXCEPT ![idx].type = newType]

\* the type select of a field
handleUpdateFieldType(idx, newType) ==
  /\ Ready /\ isConfiguring
  /\ idx \in 1..Len(schema)
  /\ newType # schema[idx].type
  /\ Commit(RetypeAt(schema, idx, newType), <<>>,
            History("retypeField", idx, schema[idx].key, NoKey, newType,
                    Undefined, <<>>))
  /\ UNCHANGED isConfiguring

\* setSchema([...schema, { key: `field_${schema.length + 1}`, type: 'text' }])
AddField ==
  /\ Ready /\ isConfiguring
  /\ Len(schema) < MaxFields
  /\ Commit(Append(schema, Field(kFieldPrefix \o NumToString(Len(schema) + 1), "text")),
            <<>>,
            History("addField", Len(schema) + 1,
                    kFieldPrefix \o NumToString(Len(schema) + 1), NoKey, "text",
                    Undefined, <<>>))
  /\ UNCHANGED isConfiguring

(* ------------------------------ initial states ------------------------- *)
Impls == {"shipped", "memo", "plain"}

ItemA == Obj(<<Entry(kTitle, Str(sHello)), Entry(kImage, Obj(<<Entry(kUrl, Str(sHello))>>))>>)
ItemB == Obj(<<Entry(kTitle, Str(<<>>)), Entry(kImage, Obj(<<Entry(kUrl, Str(<<>>))>>))>>)
ItemX == Obj(<<Entry(kTitle, Str(sHello)), Entry(kExtra, Str(sHello))>>)
SessionItems == {ItemA, ItemB, ItemX}

\* an item saved by an earlier session that had added field_3 and removed title
ItemF == Obj(<<Entry(kDescription, Str(sHello)),
               Entry(kFieldPrefix \o NumToString(3), Str(sHello))>>)

\* values of the list component the host form can hold when the editor opens
SessionValues ==
  {Str(<<>>), Arr(<<>>)}
    \cup {Arr(<<a>>) : a \in SessionItems}
    \cup {Arr(<<a, b>>) : a, b \in SessionItems}
    \cup {Arr(<<ItemF>>)}

\* the requests of the application that the authentication state bears on
RequestKinds == {"apiWithToken", "apiWithoutToken", "login"}
NoRequests == [k \in RequestKinds |-> 0]

\* the parts of the application outside the specification at hand, at rest
SubmitIdle ==
  route = "form" /\ metaJson = <<"{", "}">> /\ formData = <<>> /\ saves = {}
AuthIdle ==
  /\ token = FALSE /\ isAuthenticated = FALSE /\ isLoading = TRUE
  /\ location = "/login" /\ pending = NoRequests
DeleteIdle == rows = <<>> /\ deletes = {} /\ deleted = {}
EditorIdle ==
  /\ impl = "shipped" /\ status = "unmounted" /\ value = Undefined
  /\ schema = <<>> /\ isConfiguring = FALSE
  /\ renamed = NoRename /\ cascaded = FALSE /\ inferredAtMount = FALSE
  /\ uploads = {}
  /\ dispatcher = "ValueEditors" /\ type = "list" /\ jsonMode = FALSE
  /\ internalJson = <<>> /\ jsonError = FALSE
editorVars == <<status, value, listVars, dispatchVars>>

Start(values) ==
  /\ impl \in Impls
  /\ status = "unmounted"
  /\ value \in values
  /\ schema = <<>>
  /\ isConfiguring = FALSE
  /\ last = NoHistory
  /\ steps = 0
  /\ renamed = NoRename
  /\ cascaded = FALSE
  /\ inferredAtMount = FALSE
  /\ uploads = {}
  /\ jsonMode = FALSE
  /\ internalJson = <<>>
  /\ jsonError = FALSE
  /\ SubmitIdle /\ AuthIdle /\ DeleteIdle

\* the list editor is what ValueEditors renders for the type tag "list"
UnderValueEditors == dispatcher = "ValueEditors" /\ type = "list"

Init == Start(SessionValues) /\ UnderValueEditors

Next ==
  \/ Mount
  \/ ToggleConfiguring
  \/ handleAddItem
  \/ \E index \in 1..MaxItems : handleRemoveItem(index)
  \/ \E index \in 1..MaxItems, f \in 1..MaxFields : handleUpdateItem(index, f)
  \/ \E idx \in 1..MaxFields : handleRemoveField(idx)
  \/ \E idx \in 1..MaxFields, newKey \in RenameKeys : handleRenameField(idx, newKey)
  \/ \E idx \in 1..MaxFields, newType \in FieldTypes : handleUpdateFieldType(idx, newType)
  \/ AddField
  \/ \E index \in 1..MaxItems, f \in 1..MaxFields : StartUpload(index, f)
  \/ \E u \in uploads : UploadSucceeds(u)
  \/ \E u \in uploads : UploadFails(u)

Spec == Init /\ [][Next]_vars

(* -------------- schema inference over a wide range of first items ------ *)
kVideoUpper == <<"V","I","D","E","O","_","1">>

InferKeys == {kTitle, kHeroVideo, kVideo, kVideoUpper, kCta}

InferVals ==
  {Str(<<>>), Str(sHello), Str(Rep("x", 60)), Str(Rep("x", 61)),
   Arr(<<>>), Arr(<<Str(sHello)>>),
   Obj(<<>>), Obj(<<Entry(kUrl, Str(sHello))>>),
   Obj(<<Entry(kText, Str(sButton)), Entry(kLink, Str(sHash))>>),
   Obj(<<Entry(kUrl, Str(sHello)), Entry(kLink, Str(sHash))>>),
   Obj(<<Entry(kText, Str(sButton))>>),
   Null, Num(0), Num(5), Bool(TRUE), Bool(FALSE)}

InferValues ==
  SessionValues
    \cup {Null, Obj(<<Entry(kTitle, Str(sHello))>>)}
    \cup {Arr(<<Obj(<<Entry(k, v)>>)>>) : k \in InferKeys, v \in InferVals}
    \cup {Arr(<<Obj(<<Entry(kTitle, Str(Rep("x", 61))), Entry(k, v)>>), ItemX>>) :
             k \in {kHeroVideo, kCta}, v \in InferVals}
    \cup {Arr(<<Obj(<<>>)>>), Arr(<<Null>>), Arr(<<Num(5)>>), Arr(<<Str(sHello)>>)}

InitInfer == Start(InferValues) /\ UnderValueEditors

NextInfer == Mount

SpecInfer == InitInfer /\ [][NextInfer]_vars

(* --------------------------------- JSON -------------------------------- *)
\* JSON.parse and JSON.stringify(v, null, 2) for texts without escape
\* sequences, signs, fractions and exponents
sNull == <<"n","u","l","l">>
sTrue == <<"t","r","u","e">>
sFalse == <<"f","a","l","s","e">>
JsonWhitespace == {" ", "\n", "\t", "\r"}
DigitChars == {Digits[i] : i \in 1..10}
DigitValue(c) == (CHOOSE i \in 1..10 : Digits[i] = c) - 1

StartsWith(s, w) == Len(s) >= Len(w) /\ SubSeq(s, 1, Len(w)) = w
Drop(s, n) == SubSeq(s, n + 1, Len(s))

\* result of a parsing step: the value read and the text after it
ParseResult(v, rest) == [ok |-> TRUE, v |-> v, rest |-> rest]
ParseFail == [ok |-> FALSE, v |-> Undefined, rest |-> <<>>]

RECURSIVE SkipWs(_)
SkipWs(s) ==
  IF s # <<>> /\ Head(s) \in JsonWhitespace THEN SkipWs(Tail(s)) ELSE s

RECURSIVE ParseDigits(_, _)
ParseDigits(s, n) ==
  IF s # <<>> /\ Head(s) \in DigitChars
  THEN ParseDigits(Tail(s), 10 * n + DigitValue(Head(s)))
  ELSE ParseResult(Num(n), s)

\* a number: 0, or digits without a leading 0
ParseNumber(s) ==
  IF Head(s) = "0" THEN ParseResult(Num(0), Tail(s)) ELSE ParseDigits(s, 0)

\* the characters of a string, after its opening quote
RECURSIVE ParseChars(_, _)
ParseChars(s, acc) ==
  IF s = <<>> THEN ParseFail
  ELSE IF Head(s) = "\"" THEN ParseResult(Str(acc), Tail(s))
  ELSE IF Head(s) \in {"\n", "\t", "\r", "\\"} THEN ParseFail
  ELSE ParseChars(Tail(s), Append(acc, Head(s)))

RECURSIVE ParseValue(_)
RECURSIVE ParseElements(_, _)
RECURSIVE ParseMembers(_, _)
ParseValue(s) ==
  LET t == SkipWs(s)
  IN IF t = <<>> THEN ParseFail
     ELSE IF Head(t) = "["
     THEN LET u == SkipWs(Tail(t))
          IN IF u # <<>> /\ Head(u) = "]" THEN ParseResult(Arr(<<>>), Tail(u))
             ELSE ParseElements(u, <<>>)
     ELSE IF Head(t) = "{"
     THEN LET u == SkipWs(Tail(t))
          IN IF u # <<>> /\ Head(u) = "}" THEN ParseResult(Obj(<<>>), Tail(u))
             ELSE ParseMembers(u, <<>>)
     ELSE IF Head(t) = "\"" THEN ParseChars(Tail(t), <<>>)
     ELSE IF Head(t) \in DigitChars THEN ParseNumber(t)
     ELSE IF StartsWith(t, sNull) THEN ParseResult(Null, Drop(t, 4))
     ELSE IF StartsWith(t, sTrue) THEN ParseResult(Bool(TRUE), Drop(t, 4))
     ELSE IF StartsWith(t, sFalse) THEN ParseResult(Bool(FALSE), Drop(t, 5))
     ELSE ParseFail

\* the elements of an array, after "[" or ","
ParseElements(s, acc) ==
  LET r == ParseValue(s)
      t == SkipWs(r.rest)
  IN IF ~r.ok \/ t = <<>> THEN ParseFail
     ELSE IF Head(t) = "," THEN ParseElements(Tail(t), Append(acc, r.v))
     ELSE IF Head(t) = "]" THEN ParseResult(Arr(Append(acc, r.v)), Tail(t))
     ELSE ParseFail

\* the members of an object, after "{" or ","
ParseMembers(s, acc) ==
  LET t == SkipWs(s)
  IN IF t = <<>> \/ Head(t) # "\"" THEN ParseFail
     ELSE LET k == ParseChars(Tail(t), <<>>)
              c == SkipWs(k.rest)
          IN IF ~k.ok \/ c = <<>> \/ Head(c) # ":" THEN ParseFail
             ELSE LET r == ParseValue(Tail(c))
                      e == SkipWs(r.rest)
                  IN IF ~r.ok \/ e = <<>> THEN ParseFail
                     ELSE IF Head(e) = ","
                     THEN ParseMembers(Tail(e), SetKey(acc, k.v.s, r.v))
                     ELSE IF Head(e) = "}"
                     THEN ParseResult(Obj(SetKey(acc, k.v.s, r.v)), Tail(e))
                     ELSE ParseFail

\* JSON.parse(text) returns, rather than throwing a SyntaxError
JsonParses(text) ==
  LET r == ParseValue(text) IN r.ok /\ SkipWs(r.rest) = <<>>

\* JSON.parse(text), for a text that parses
JsonParseFirstElementOnly(text) ==
  LET v == ParseValue(text).v
  IN IF v.t = "array" /\ Len(v.a) > 1 THEN Arr(<<v.a[1]>>) ELSE v

JsonParse(text) == ParseValue(text).v

\* JSON.stringify(v, null, 2) at indentation ind; undefined and empty slots
\* print as null inside an array and are left out of an object
RECURSIVE JSONStringify(_, _)
RECURSIVE StringifyElements(_, _, _)
RECURSIVE StringifyMembers(_, _, _)
JSONStringify(v, ind) ==
  CASE v.t = "string" -> <<"\"">> \o v.s \o <<"\"">>
    [] v.t = "number" -> NumToString(v.n)
    [] v.t = "boolean" -> IF v.b THEN sTrue ELSE sFalse
    [] v.t = "array" ->
         IF v.a = <<>> THEN <<"[", "]">>
         ELSE <<"[", "\n">> \o StringifyElements(v.a, ind \o <<" ", " ">>, 1)
                \o <<"\n">> \o ind \o <<"]">>
    [] v.t = "object" ->
         LET e == SelectSeq(v.e, LAMBDA x : x.v.t \notin {"undefined", "hole"})
         IN IF e = <<>> THEN <<"{", "}">>
            ELSE <<"{", "\n">> \o StringifyMembers(e, ind \o <<" ", " ">>, 1)
                   \o <<"\n">> \o ind \o <<"}">>
    [] OTHER -> sNull

StringifyElements(a, ind, i) ==
  ind \o JSONStringify(a[i], ind)
      \o (IF i = Len(a) THEN <<>>
          ELSE <<",", "\n">> \o StringifyElements(a, ind, i + 1))

StringifyMembers(e, ind, i) ==
  ind \o <<"\"">> \o e[i].k \o <<"\"", ":", " ">> \o JSONStringify(e[i].v, ind)
      \o (IF i = Len(e) THEN <<>>
          ELSE <<",", "\n">> \o StringifyMembers(e, ind, i + 1))

(* ----------------------------- the dispatcher -------------------------- *)
\* the type tags of the type select, and one tag no editor knows
kHtml == "html"
TypeTags == {"text", "richText", "image", "video", "button", "list", "custom", kHtml}

\* the editor the dispatcher d renders for type tag ty and value v
Widget(d, ty, jm, v) ==
  IF d = "ValueEditors"
  THEN IF jm \/ ty = "custom" THEN "json"
       ELSE CASE ty = "richText" -> "richText"
              [] ty \in {"image", "video"} -> "media"
              [] ty = "button" -> "button"
              [] ty = "list" -> "list"
              [] OTHER -> "textarea"
  ELSE CASE ty \in {"text", "richText"} -> "input"
         [] ty = "button" -> "json"
         [] ty \in {"image", "video"} ->
              IF v.t = "string" \/ ~Truthy(v) THEN "input" ELSE "json"
         [] OTHER -> "json"

\* what the JSON textarea calls onChange with, for the text typed into it
JsonChangeCallsRawOnError(text) ==
  IF JsonParses(text) THEN <<JsonParse(text)>> ELSE <<Str(text)>>

JsonChangeCalls(text) ==
  IF JsonParses(text) THEN <<JsonParse(text)>> ELSE <<>>

\* the text the JSON textarea shows
JsonText ==
  IF dispatcher = "ValueEditor" /\ type = "button" /\ internalJson = <<>>
  THEN IF IsNonNullObject(value) \/ value.t = "null" THEN JSONStringify(value, <<>>)
       ELSE IF value.t = "string" THEN value.s ELSE <<>>
  ELSE internalJson

\* the effect that fills internalJson from the value, given that it runs
SyncJson(d, ty, jm, v, text) ==
  IF d = "ValueEditors"
  THEN IF jm /\ Truthy(v) THEN JSONStringify(v, <<>>) ELSE text
  ELSE IF ty \in {"list", "custom"} /\ (IsNonNullObject(v) \/ v.t = "null")
       THEN JSONStringify(v, <<>>) ELSE text

\* state after a dispatcher event that leaves type ty, jsonMode jm, the text
\* and error flag given, and called onChange with calls; the effect runs when
\* one of its dependencies changed ([jsonMode, value] in ValueEditors,
\* [value, type] in ValueEditor; a parsed object is always a new reference)
DispatchCommit(ty, jm, text, err, calls, h) ==
  LET newValue == IF calls = <<>> THEN value ELSE calls[Len(calls)]
      changed == calls # <<>> /\ (IsNonNullObject(newValue) \/ newValue # value)
      runs == IF dispatcher = "ValueEditors" THEN changed \/ jm # jsonMode
              ELSE changed \/ ty # type
  IN /\ value' = newValue
     /\ type' = ty
     /\ jsonMode' = jm
     /\ internalJson' =
          IF runs THEN SyncJson(dispatcher, ty, jm, newValue, text) ELSE text
     /\ jsonError' = err
     /\ last' = h
     /\ steps' = steps + 1
     /\ UNCHANGED <<status, dispatcher>>
     /\ UNCHANGED <<listVars, submitVars, authVars, deleteVars>>

\* first render of the dispatcher and its effect
DispatchMount ==
  /\ status = "unmounted"
  /\ status' = "mounted"
  /\ internalJson' = SyncJson(dispatcher, type, jsonMode, value, internalJson)
  /\ last' = History("mount", 0, NoKey, NoKey, "", Undefined, <<>>)
  /\ UNCHANGED <<value, steps, dispatcher, type, jsonMode, jsonError>>
  /\ UNCHANGED <<listVars, submitVars, authVars, deleteVars>>

\* texts typed or pasted into the JSON textarea
JsonTexts ==
  {<<>>, <<"[">>, <<"[", "1", "]">>, <<"[", "1", ",", "]">>, <<" ", "[", " ", "]", " ">>,
   <<"{", "\"", "a", "\"", ":", "1", "}">>, <<"{", "a", ":", "1", "}">>,
   <<"0">>, <<"\"", "a", "\"">>, sNull, <<"n", "u", "l">>}

\* the JSON textarea's onChange (handleJsonChange in ValueEditor, which also
\* keeps jsonError; the inline handler in ValueEditors, which has no such state)
TypeJson(text) ==
  /\ Ready
  /\ Widget(dispatcher, type, jsonMode, value) = "json"
  /\ DispatchCommit(type, jsonMode, text,
                    dispatcher = "ValueEditor" /\ ~JsonParses(text),
                    JsonChangeCalls(text),
                    History("typeJson", 0, NoKey, NoKey, type, Str(text),
                            JsonChangeCalls(text)))

\* the plain textarea or input: onChange(e.target.value)
TypeText(text) ==
  /\ Ready
  /\ Widget(dispatcher, type, jsonMode, value) \in {"textarea", "input"}
  /\ DispatchCommit(type, jsonMode, internalJson, jsonError, <<Str(text)>>,
                    History("typeText", 0, NoKey, NoKey, type, Str(text),
                            <<Str(text)>>))

\* the "Developer JSON" button of the plain textarea and the "Visual Editor"
\* button of the JSON textarea
SetJsonMode(b) ==
  /\ Ready
  /\ dispatcher = "ValueEditors"
  /\ Widget(dispatcher, type, jsonMode, value) = (IF b THEN "textarea" ELSE "json")
  /\ DispatchCommit(type, b, internalJson, jsonError, <<>>,
                    History("setJsonMode", 0, NoKey, NoKey, type, Bool(b), <<>>))

\* the type select of the component
ChangeType(ty) ==
  /\ Ready
  /\ ty \in (TypeTags \ {kHtml, type})
  /\ DispatchCommit(ty, jsonMode, internalJson, jsonError, <<>>,
                    History("changeType", 0, NoKey, NoKey, ty, Undefined, <<>>))

\* the type of list field whose widget the dispatcher's editor is
WidgetFieldType(w, ty) ==
  CASE w = "richText" -> "text" [] w = "media" -> ty [] OTHER -> w

\* an edit in the rich-text, media, button or list editor
WidgetChange ==
  /\ Ready
  /\ Widget(dispatcher, type, jsonMode, value) \in {"richText", "media", "button", "list"}
  /\ \E val \in WidgetValues(impl, WidgetFieldType(Widget(dispatcher, type, jsonMode, value),
                                                  type), value) :
       DispatchCommit(type, jsonMode, internalJson, jsonError, <<val>>,
                      History("widgetChange", 0, NoKey, NoKey, type, val, <<val>>))

DispatchValues ==
  {Undefined, Str(<<>>), Str(sHello), Obj(<<Entry(kUrl, Str(sHello))>>),
   Arr(<<>>), Arr(<<ItemA>>), Arr(<<ItemA, ItemB>>)}

Dispatchers == {"ValueEditors", "ValueEditor"}

\* texts typed into the plain textarea or input
PlainTexts == TypedStrings \cup {<<"[", "1", "]">>}

\* the three versions of ValueEditors dispatch alike; the shipped one is run
InitDispatch ==
  /\ Start(DispatchValues)
  /\ impl = "shipped"
  /\ dispatcher \in Dispatchers
  /\ type \in TypeTags

NextDispatch ==
  \/ DispatchMount
  \/ \E text \in JsonTexts \cup {JsonText} : TypeJson(text)
  \/ \E text \in PlainTexts : TypeText(text)
  \/ \E b \in BOOLEAN : SetJsonMode(b)
  \/ \E ty \in TypeTags : ChangeType(ty)
  \/ WidgetChange

SpecDispatch == InitDispatch /\ [][NextDispatch]_vars

(* ------------------------ authentication and routes -------------------- *)
\* location "/login" is the login route, "/" stands for the protected routes
\* (Dashboard and the pages under Layout, which fetch when they mount)
\* requests in flight are counted up to MaxPending per kind
AddRequests(p, k, n) ==
  [p EXCEPT ![k] = IF @ + n > MaxPending THEN MaxPending ELSE @ + n]

\* the request interceptor attaches the token that localStorage holds
ApiKind(tok) == IF tok THEN "apiWithToken" ELSE "apiWithoutToken"

\* ProtectedRoute: what it renders
ProtectedRouteIgnoresAuth(loading, auth) ==
  IF loading THEN "loading" ELSE "outlet"

ProtectedRoute(loading, auth) ==
  IF loading THEN "loading" ELSE IF auth THEN "outlet" ELSE "navigate"

\* the route after the redirects that rendering at loc performs: Login
\* renders <Navigate to="/"> while isAuthenticated, ProtectedRoute renders
\* <Navigate to="/login"> when it is not
Settle(loc, loading, auth) ==
  IF loc = "/login"
  THEN IF auth THEN "/" ELSE "/login"
  ELSE IF ProtectedRoute(loading, auth) = "navigate" THEN "/login" ELSE "/"

\* what the application shows
Screen ==
  IF location = "/login" THEN "loginForm"
  ELSE ProtectedRoute(isLoading, isAuthenticated)

\* the protected content is mounted anew by a step that ends on it and
\* either started on another screen or passed through the login route
Remounts(before, through, after, loading, auth) ==
  /\ after = "/" /\ ProtectedRoute(loading, auth) = "outlet"
  /\ before # "outlet" \/ through = "/login"

AuthEvent(op, st) ==
  [op |-> op, status |-> st, token |-> token, isAuthenticated |-> isAuthenticated,
   location |-> location]

\* state after an event that leaves the token tok, isAuthenticated auth, the
\* hash at loc and the requests p: the redirects are followed, and the
\* Dashboard that mounts sends its two requests
AuthCommit(tok, loading, auth, loc, p, h) ==
  /\ token' = tok
  /\ isLoading' = loading
  /\ isAuthenticated' = auth
  /\ location' = Settle(loc, loading, auth)
  /\ pending' =
       IF Remounts(Screen, loc, Settle(loc, loading, auth), loading, auth)
       THEN AddRequests(p, ApiKind(tok), 2) ELSE p
  /\ last' = h
  /\ UNCHANGED <<editorVars, submitVars, deleteVars>>

\* the AuthProvider's mount effect: the initial token check
AuthMount ==
  /\ isLoading
  /\ AuthCommit(token, FALSE, token, location, pending, AuthEvent("authMount", 0))
  /\ UNCHANGED steps

AuthReady == ~isLoading /\ steps < MaxSteps

\* the login form's onSubmit, up to the await
LoginSubmit ==
  /\ AuthReady /\ Screen = "loginForm"
  /\ AuthCommit(token, isLoading, isAuthenticated, location,
                AddRequests(pending, "login", 1), AuthEvent("loginSubmit", 0))
  /\ steps' = steps + 1

\* the Logout button of the Layout
Logout ==
  /\ AuthReady /\ Screen = "outlet"
  /\ AuthCommit(FALSE, isLoading, FALSE, location, pending, AuthEvent("logout", 0))
  /\ steps' = steps + 1

\* a page under the Layout sends a request (a list is fetched, a form saved)
ApiRequest ==
  /\ AuthReady /\ Screen = "outlet"
  /\ AuthCommit(token, isLoading, isAuthenticated, location,
                AddRequests(pending, ApiKind(token), 1), AuthEvent("apiRequest", 0))
  /\ steps' = steps + 1

\* the user opens another route through the address bar
UserGoto(loc) ==
  /\ AuthReady /\ loc # location
  /\ AuthCommit(token, isLoading, isAuthenticated, loc, pending,
                AuthEvent("goto", 0))
  /\ steps' = steps + 1

\* the response interceptor on a 401: removeItem('token'), and the hash is
\* set to #/login unless it is there already
HashAfter401(loc) == "/login"

\* a response to a request of kind k arrives with status st
Response(k, st) ==
  /\ ~isLoading
  /\ pending[k] > 0
  /\ LET p == [pending EXCEPT ![k] = @ - 1]
         h == AuthEvent(IF k = "login" THEN "loginResponse" ELSE "apiResponse", st)
     IN CASE st = 401 ->
               AuthCommit(FALSE, isLoading, isAuthenticated, HashAfter401(location), p, h)
          [] st = 200 /\ k = "login" ->
               AuthCommit(TRUE, isLoading, TRUE, location, p, h)
          [] OTHER ->
               AuthCommit(token, isLoading, isAuthenticated, location, p, h)
  /\ UNCHANGED steps

InitAuth ==
  /\ EditorIdle /\ SubmitIdle /\ DeleteIdle
  /\ token \in BOOLEAN
  /\ isAuthenticated = FALSE
  /\ isLoading = TRUE
  /\ location \in {"/login", "/"}
  /\ pending = NoRequests
  /\ steps = 0
  /\ last = [op |-> "load", status |-> 0, token |-> token,
              isAuthenticated |-> FALSE, location |-> location]

NextAuth ==
  \/ AuthMount
  \/ LoginSubmit
  \/ Logout
  \/ ApiRequest
  \/ \E loc \in {"/login", "/"} : UserGoto(loc)
  \/ \E k \in RequestKinds, st \in {200, 401, 500} : Response(k, st)

SpecAuth == InitAuth /\ [][NextAuth]_vars

\* every response arrives
FairSpecAuth ==
  SpecAuth /\ WF_vars(\E k \in RequestKinds, st \in {200, 401, 500} : Response(k, st))

(* -------------------- page, blog and portfolio editors ----------------- *)
\* PageEditor, BlogEditor and PortfolioEditor share one onSubmit: parse the
\* metadata text, send create or update, navigate to the list on success.
\* The Save button shows isSubmitting (isLoading); the Button component is
\* not part of the sources at hand and is taken to be disabled meanwhile.
MetaTexts == {<<"{", "}">>, <<"{">>, <<"{", "\"", "a", "\"", ":", "1", "}">>}
FormTitles == {<<>>, sHello}

\* the zod schema: title: z.string().min(1)
FormValid(data) == Len(data) >= 1

SubmitEvent(op, toast) ==
  [op |-> op, route |-> route, metaJson |-> metaJson, formData |-> formData,
   saves |-> saves, toast |-> toast, status |-> 0]

\* the requests in flight after onSubmit ran on the metadata text meta
SavesAfterSubmitIgnoringMeta(meta, data, cur) ==
  cur \cup {[payload |-> data,
             metadata |-> IF JsonParses(meta) THEN JsonParse(meta) ELSE Obj(<<>>)]}

SavesAfterSubmit(meta, data, cur) ==
  IF JsonParses(meta)
  THEN cur \cup {[payload |-> data, metadata |-> JsonParse(meta)]}
  ELSE cur

SubmitStep(h) ==
  /\ last' = h
  /\ steps' = steps + 1
  /\ UNCHANGED <<editorVars, deleteVars>>

SubmitReady == route = "form" /\ steps < MaxSteps

\* the metadata textarea: setMetaJson(e.target.value)
EditMeta(text) ==
  /\ SubmitReady /\ text # metaJson
  /\ metaJson' = text
  /\ UNCHANGED <<authVars, route, formData, saves>>
  /\ SubmitStep(SubmitEvent("editMeta", "none"))

\* a registered input of the form
EditForm(data) ==
  /\ SubmitReady /\ data # formData
  /\ formData' = data
  /\ UNCHANGED <<authVars, route, metaJson, saves>>
  /\ SubmitStep(SubmitEvent("editForm", "none"))

\* handleSubmit(onSubmit), up to the await
Submit ==
  /\ SubmitReady /\ saves = {}
  /\ FormValid(formData)
  /\ saves' = SavesAfterSubmit(metaJson, formData, saves)
  /\ UNCHANGED <<authVars, route, metaJson, formData>>
  /\ SubmitStep(SubmitEvent("submit", IF JsonParses(metaJson) THEN "none" ELSE "error"))

\* the request succeeded: toast.success and navigate to the list
SaveSucceeds(r) ==
  /\ steps < MaxSteps
  /\ r \in saves
  /\ saves' = saves \ {r}
  /\ route' = "list"
  /\ UNCHANGED <<authVars, metaJson, formData>>
  /\ SubmitStep(SubmitEvent("saveDone", "success"))

\* the request failed with status st: on a 401 the response interceptor
\* removes the token and sets the hash to #/login, which unmounts the form;
\* then toast.error in the catch block
SaveFails(r, st) ==
  /\ steps < MaxSteps
  /\ r \in saves
  /\ saves' = saves \ {r}
  /\ IF st = 401
     THEN /\ token' = FALSE
          /\ location' = Settle(HashAfter401(location), isLoading, isAuthenticated)
          /\ pending' =
               IF Remounts(Screen, HashAfter401(location), location', isLoading,
                           isAuthenticated)
               THEN AddRequests(pending, ApiKind(FALSE), 2) ELSE pending
          /\ route' = IF location' = "/login" THEN "login" ELSE "dashboard"
          /\ UNCHANGED <<isAuthenticated, isLoading>>
     ELSE UNCHANGED <<authVars, route>>
  /\ UNCHANGED <<metaJson, formData>>
  /\ SubmitStep([SubmitEvent("saveFailed", "error") EXCEPT !.status = st])

\* the Back button: navigate to the list
Back ==
  /\ SubmitReady
  /\ route' = "list"
  /\ UNCHANGED <<authVars, metaJson, formData, saves>>
  /\ SubmitStep(SubmitEvent("back", "none"))

InitSubmit ==
  /\ EditorIdle /\ DeleteIdle
  /\ token = TRUE /\ isAuthenticated = TRUE /\ isLoading = FALSE
  /\ location = "/" /\ pending = NoRequests
  /\ route = "form"
  /\ metaJson \in MetaTexts
  /\ formData \in FormTitles
  /\ saves = {}
  /\ steps = 0
  /\ last = [op |-> "open", route |-> "form", metaJson |-> metaJson,
              formData |-> formData, saves |-> {}, toast |-> "none",
              status |-> 0]

NextSubmit ==
  \/ \E text \in MetaTexts : EditMeta(text)
  \/ \E data \in FormTitles : EditForm(data)
  \/ Submit
  \/ \E r \in saves : SaveSucceeds(r)
  \/ \E r \in saves, st \in {401, 500} : SaveFails(r, st)
  \/ Back

SpecSubmit == InitSubmit /\ [][NextSubmit]_vars

(* ------------------------------ list pages ----------------------------- *)
\* PageList, SectionList, PortfolioList and ContactList share handleDelete.
\* rows is the displayed list (ids), deletes the backend deletes in flight,
\* each with the list its handler closed over, deleted the ids whose backend
\* delete succeeded.
RowIds == {"a", "b", "c"}
BackendRows == {<<"a", "b", "c">>, <<"a", "b">>}

RowSet(list) == {list[i] : i \in 1..Len(list)}

\* pages.filter(p => p.id !== id)
WithoutRow(list, id) ==
  LET Keep(x) == x # id IN SelectSeq(list, Keep)

DeleteEvent(op, id) == [op |-> op, id |-> id, rows |-> rows, deleted |-> deleted]

DeleteStep(h) ==
  /\ last' = h
  /\ UNCHANGED <<editorVars, submitVars, authVars>>

\* the fetch of the mount effect resolves: setPages(data)
FetchDone(list) ==
  /\ last.op = "open"
  /\ rows' = list
  /\ UNCHANGED <<deletes, deleted, steps>>
  /\ DeleteStep(DeleteEvent("fetch", ""))

\* handleDelete(id) with the confirmation accepted, up to the await; the
\* handler keeps the list of the render it was created in
StartDelete(id) ==
  /\ steps < MaxSteps
  /\ id \in RowSet(rows)
  /\ Cardinality(deletes) < MaxDeletes
  /\ deletes' = deletes \cup {[id |-> id, pages |-> rows]}
  /\ steps' = steps + 1
  /\ UNCHANGED <<rows, deleted>>
  /\ DeleteStep(DeleteEvent("startDelete", id))

\* handleDelete(id) with the confirmation declined
DeclineDelete(id) ==
  /\ steps < MaxSteps
  /\ id \in RowSet(rows)
  /\ steps' = steps + 1
  /\ UNCHANGED <<rows, deletes, deleted>>
  /\ DeleteStep(DeleteEvent("decline", id))

\* the list that a handler which closed over the list closed sets after its
\* delete of id succeeded, cur being the list displayed at that moment
RowsAfterDelete(cur, closed, id) == WithoutRow(closed, id)

\* the backend delete succeeded: setPages(pages.filter(...)), toast.success
DeleteSucceeds(d) ==
  /\ d \in deletes
  /\ rows' = RowsAfterDelete(rows, d.pages, d.id)
  /\ deletes' = deletes \ {d}
  /\ deleted' = deleted \cup {d.id}
  /\ UNCHANGED steps
  /\ DeleteStep(DeleteEvent("deleteDone", d.id))

\* the backend delete failed: toast.error
DeleteFails(d) ==
  /\ d \in deletes
  /\ deletes' = deletes \ {d}
  /\ UNCHANGED <<rows, deleted, steps>>
  /\ DeleteStep(DeleteEvent("deleteFailed", d.id))

InitDelete ==
  /\ EditorIdle /\ SubmitIdle /\ AuthIdle
  /\ rows = <<>> /\ deletes = {} /\ deleted = {}
  /\ steps = 0
  /\ last = [op |-> "open", id |-> "", rows |-> <<>>, deleted |-> {}]

NextDelete ==
  \/ \E list \in BackendRows : FetchDone(list)
  \/ \E id \in RowIds : StartDelete(id)
  \/ \E id \in RowIds : DeclineDelete(id)
  \/ \E d \in deletes : DeleteSucceeds(d)
  \/ \E d \in deletes : DeleteFails(d)

SpecDelete == InitDelete /\ [][NextDelete]_vars

(* ================================ claims =============================== *)
OldItems == Items(last.value)
NewItems == Items(value)
ItemKeys(item) == KeySet(Spread(item))
ItemGet(item, k) == GetKey(Spread(item), k)

\* C1: after removing the schema field with key k the schema no longer has
\* that entry, and no item contains key k any more, neither in a list value
\* handed to the change callback nor in the value the host form holds.
C1_RemoveFieldDeletesKey ==
  last.op = "removeField" =>
    /\ schema = RemoveAt(last.schema, last.idx)
    /\ \A c \in 1..Len(last.calls) : \A i \in 1..Len(Items(last.calls[c])) :
         last.key \notin ItemKeys(Items(last.calls[c])[i])
    /\ \A i \in 1..Len(NewItems) : last.key \notin ItemKeys(NewItems[i])

\* C2: after renaming a field from old to new (old # new) the schema entry
\* at that position has key new; every item that contained old holds under
\* new the value it held under old and no longer contains old; every item
\* that did not contain old is unchanged.
C2_RenameMovesValue ==
  last.op = "renameField" =>
    /\ Len(schema) = Len(last.schema)
    /\ schema[last.idx].key = last.newKey
    /\ Len(NewItems) = Len(OldItems)
    /\ \A i \in 1..Len(OldItems) :
         IF last.key \in ItemKeys(OldItems[i])
         THEN /\ ItemGet(NewItems[i], last.newKey) = ItemGet(OldItems[i], last.key)
              /\ last.newKey \in ItemKeys(NewItems[i])
              /\ last.key \notin ItemKeys(NewItems[i])
         ELSE NewItems[i] = OldItems[i]

\* C3: after renaming field A to B and then any sequence of update-item-field
\* operations on field B, no item of the list contains key A.
C3_NoResidualOldKey ==
  renamed.live =>
    \A i \in 1..Len(NewItems) : renamed.from \notin ItemKeys(NewItems[i])

\* C4: starting from a list whose schema was inferred at mount, after any
\* sequence of operations with at least one rename-field or remove-field,
\* every item's key set is a subset of the current schema's key set.
C4_ItemKeysWithinSchema ==
  (status = "mounted" /\ inferredAtMount /\ cascaded) =>
    \A i \in 1..Len(NewItems) : ItemKeys(NewItems[i]) \subseteq SchemaKeys(schema)

\* the documented empty value of a field type
DocumentedDefault(ty) ==
  CASE ty \in {"text", "longText"} -> Str(<<>>)
    [] ty \in {"image", "video"} -> Obj(<<Entry(kUrl, Str(<<>>))>>)
    [] ty = "button" -> Obj(<<Entry(kText, Str(sButton)), Entry(kLink, Str(sHash))>>)
    [] ty = "list" -> Arr(<<>>)

\* C5: append item adds exactly one item at the end and leaves the existing
\* items and their order unchanged; the new item's key set equals the key
\* set of the current schema, and under the key of every schema field it
\* holds the documented empty value of that field's type.
C5_AppendItem ==
  last.op = "addItem" =>
    /\ Len(NewItems) = Len(OldItems) + 1
    /\ \A i \in 1..Len(OldItems) : NewItems[i] = OldItems[i]
    /\ ItemKeys(NewItems[Len(NewItems)]) = SchemaKeys(last.schema)
    /\ \A f \in 1..Len(last.schema) :
         ItemGet(NewItems[Len(NewItems)], last.schema[f].key)
           = DocumentedDefault(last.schema[f].type)

\* C6: update item field (index i, key k, value v) yields a list of the same
\* length in which item i has k = v, every other key of item i keeps its
\* value, and every other item is unchanged and at the same index.
C6_UpdateItemField ==
  last.op = "updateItem" =>
    /\ Len(NewItems) = Len(OldItems)
    /\ ItemGet(NewItems[last.idx], last.key) = last.val
    /\ ItemKeys(NewItems[last.idx]) = ItemKeys(OldItems[last.idx]) \cup {last.key}
    /\ \A k \in ItemKeys(OldItems[last.idx]) \ {last.key} :
         ItemGet(NewItems[last.idx], k) = ItemGet(OldItems[last.idx], k)
    /\ \A j \in 1..Len(OldItems) : j # last.idx => NewItems[j] = OldItems[j]

\* an update of the second of two items, whose other key keeps its value
C6_Witness ==
  /\ last.op = "updateItem"
  /\ last.idx = 2
  /\ Len(OldItems) = 2
  /\ ItemKeys(OldItems[2]) \ {last.key} # {}
  /\ ItemGet(OldItems[2], last.key) # last.val

\* C7: remove item at index i yields a list one shorter in which the items
\* before i keep their index, the items after i move down by exactly one,
\* and every remaining item is unchanged.
C7_RemoveItem ==
  last.op = "removeItem" =>
    /\ Len(NewItems) = Len(OldItems) - 1
    /\ \A j \in 1..Len(NewItems) :
         NewItems[j] = IF j < last.idx THEN OldItems[j] ELSE OldItems[j + 1]

\* the last of at least two different items was removed, the first one stays
C7_Witness ==
  /\ last.op = "removeItem"
  /\ Len(OldItems) >= 2
  /\ last.idx = Len(OldItems)
  /\ OldItems[1] # OldItems[2]
  /\ NewItems[1] = OldItems[1]

\* C8: for a non-empty list, the schema inferred at mount has exactly one
\* field per key of the first item, so its key set is the first item's.
C8_InferredKeysAreFirstItemKeys ==
  (last.op = "mount" /\ Len(NewItems) > 0 /\ ~ObjectKeysThrows(NewItems[1])) =>
    /\ status = "mounted"
    /\ Len(schema) = Cardinality(ItemKeys(NewItems[1]))
    /\ SchemaKeys(schema) = ItemKeys(NewItems[1])

\* a second item carries a key the first item lacks; the schema lacks it too
C8_Witness ==
  /\ last.op = "mount"
  /\ Len(NewItems) = 2
  /\ Len(schema) = 2
  /\ kExtra \in ItemKeys(NewItems[2]) \ ItemKeys(NewItems[1])
  /\ kExtra \notin SchemaKeys(schema)

\* the keys of the model that contain "video" in some letter case
VideoKeys == {kHeroVideo, kVideo, kVideoUpper}

\* C9: inference classifies each key of the first item: string longer than
\* 60 -> longText, shorter string -> text; array -> list; object with url
\* under a key containing "video" (any case) -> video; other object with
\* url -> image (also with link); object with link and no url -> button;
\* every other value -> text.
C9_Classification ==
  (last.op = "mount" /\ status = "mounted" /\ Len(NewItems) > 0) =>
    \A f \in 1..Len(schema) :
      LET key == schema[f].key
          val == ItemGet(NewItems[1], key)
          ty == schema[f].type
      IN CASE val.t = "string" -> ty = (IF Len(val.s) > 60 THEN "longText" ELSE "text")
           [] val.t = "array" -> ty = "list"
           [] val.t = "object" /\ kUrl \in ItemKeys(val) ->
                ty = (IF key \in VideoKeys THEN "video" ELSE "image")
           [] val.t = "object" /\ kUrl \notin ItemKeys(val) /\ kLink \in ItemKeys(val) ->
                ty = "button"
           [] OTHER -> ty = "text"

\* a long string and a url object under a mixed-case video key, classified
C9_Witness ==
  /\ last.op = "mount"
  /\ status = "mounted"
  /\ schema = <<Field(kTitle, "longText"), Field(kHeroVideo, "video")>>

\* C10: when the editor starts with an empty list (or a value that is not
\* an array) the schema is exactly [title: text, description: longText].
C10_DefaultSchema ==
  (last.op = "mount" /\ Len(NewItems) = 0) =>
    /\ status = "mounted"
    /\ schema = <<[key |-> kTitle, type |-> "text"],
                  [key |-> kDescription, type |-> "longText"]>>

\* the editor was opened on a value that is not an array
C10_Witness ==
  /\ last.op = "mount"
  /\ value.t # "array"
  /\ Len(schema) = 2


\* C11: for a non-empty list whose first item has no keys or is not an
\* object (null, a string, a number), schema initialisation raises no error
\* and ends with the default schema [title: text, description: longText].
C11_MalformedFirstItemFallsBack ==
  (last.op = "mount" /\ Len(NewItems) > 0
     /\ (NewItems[1].t # "object" \/ NewItems[1].e = <<>>)) =>
    /\ status = "mounted"
    /\ schema = <<[key |-> kTitle, type |-> "text"],
                  [key |-> kDescription, type |-> "longText"]>>

\* C12: in every state of a mounted editor no two schema fields have the
\* same key.
C12_SchemaKeysUnique ==
  status = "mounted" => Cardinality(SchemaKeys(schema)) = Len(schema)

\* C13: add field appends exactly one field of type text with key
\* field_<n+1> (n fields before) at the end of the schema, leaves every
\* existing field and every item unchanged, does not invoke the change
\* callback, and right after it no item contains the new key.
C13_AddField ==
  last.op = "addField" =>
    /\ Len(schema) = Len(last.schema) + 1
    /\ \A f \in 1..Len(last.schema) : schema[f] = last.schema[f]
    /\ schema[Len(schema)] =
         [key |-> kFieldPrefix \o NumToString(Len(last.schema) + 1), type |-> "text"]
    /\ value = last.value
    /\ last.calls = <<>>
    /\ \A i \in 1..Len(NewItems) : schema[Len(schema)].key \notin ItemKeys(NewItems[i])

\* C14: retype field changes only the type of the schema entry at that
\* position; its key, every other entry and the whole list value are
\* unchanged, and the change callback is not invoked.
C14_RetypeField ==
  last.op = "retypeField" =>
    /\ Len(schema) = Len(last.schema)
    /\ schema[last.idx].type = last.type
    /\ schema[last.idx].key = last.schema[last.idx].key
    /\ \A f \in 1..Len(schema) : f # last.idx => schema[f] = last.schema[f]
    /\ value = last.value
    /\ last.calls = <<>>

\* the text field of an item holding an image object was retyped
C14_Witness ==
  /\ last.op = "retypeField"
  /\ Len(NewItems) > 0
  /\ last.schema[last.idx].type = "image"
  /\ last.type = "text"
  /\ ItemGet(NewItems[1], last.key).t = "object"
  /\ Len(schema) >= 2

\* C15: when an upload is rejected the media editor does not call the change
\* callback, so the value the host form holds (the field's url included) is
\* the one from before the response; an error notification is raised; and
\* the editor that started the upload, if still mounted, is no longer
\* uploading.
C15_UploadFailure ==
  last.op = "uploadFailed" =>
    /\ last.calls = <<>>
    /\ value = last.value
    /\ last.toast = "error"
    /\ last.upload.live => ~IsUploading(last.idx, last.key)

C15_Witness ==
  /\ last.op = "uploadFailed" /\ last.upload.live
  /\ last.upload \notin uploads
  /\ RowAt(last.idx)

\* C16: when an upload completes successfully while the editor that started
\* it is still mounted, the value after completion is the value that was
\* current when the response arrived with only the url of that media field
\* replaced.
C16_UploadTouchesOnlyUrl ==
  (last.op = "uploadDone" /\ last.upload.live) =>
    value = Arr(UpdateAt(Items(last.value), last.idx, last.key,
                         Obj(SetKey(MediaData(Prop(ElemAt(Items(last.value), last.idx),
                                                   last.key)),
                                    kUrl, Str(sUploadedUrl)))))

\* C17: when the text typed into the raw JSON editor does not parse, the
\* change callback is not invoked and the host form keeps its value; when it
\* parses, the callback is invoked once, with the parse result.
C17_InvalidJsonKeepsValue ==
  last.op = "typeJson" =>
    IF JsonParses(last.val.s)
    THEN last.calls = <<JsonParse(last.val.s)>> /\ value = JsonParse(last.val.s)
    ELSE last.calls = <<>> /\ value = last.value

C17_Witness ==
  /\ last.op = "typeJson" /\ ~JsonParses(last.val.s)
  /\ last.value \in {JsonParse(t) : t \in {x \in JsonTexts : JsonParses(x)}}
  /\ IsNonNullObject(value)

\* C18: after text was typed into the raw JSON editor, the editor shows its
\* validation message exactly if the text it holds does not parse as JSON.
C18_InvalidJsonSurfaced ==
  last.op = "typeJson" => (jsonError <=> ~JsonParses(JsonText))

\* C19: the dispatcher renders the raw JSON editor for 'custom' and for
\* every type tag other than richText, image, video, button and list, and
\* the rich-text, media, button and list editors for those five.
C19_DispatcherFallback ==
  status = "mounted" =>
    Widget(dispatcher, type, jsonMode, value) =
      CASE type = "richText" -> "richText"
        [] type \in {"image", "video"} -> "media"
        [] type = "button" -> "button"
        [] type = "list" -> "list"
        [] OTHER -> "json"

\* C20: each of append item, remove item, update item field, rename field
\* and remove field invokes the change callback exactly once within the
\* event, with the complete new list value, which is the value the host
\* form then holds.
C20_EveryMutationReported ==
  last.op \in {"addItem", "removeItem", "updateItem", "renameField", "removeField"} =>
    Len(last.calls) = 1 /\ value = last.calls[1]

\* C21: a list value serialised as the raw JSON mode serialises it parses
\* back to the same item sequence; so when the unedited text of the raw JSON
\* mode is parsed again, the change callback gets a value equal to the
\* current one.
C21_JsonRoundTrip ==
  /\ value.t = "array" =>
        /\ JsonParses(JSONStringify(value, <<>>))
        /\ JsonParse(JSONStringify(value, <<>>)) = value
  /\ (last.op = "typeJson" /\ last.value.t = "array"
        /\ last.val.s = JSONStringify(last.value, <<>>)) =>
        last.calls = <<last.value>> /\ value = last.value

C21_Witness ==
  /\ last.op = "typeJson" /\ jsonMode
  /\ last.value.t = "array" /\ Len(last.value.a) > 1
  /\ last.val.s = JSONStringify(last.value, <<>>)
  /\ last.calls # <<>>

\* C22: after a rename old -> new every item holds, under each of its keys
\* other than the old key, the value it held there before the rename.
C22_RenameKeepsOtherKeys ==
  last.op = "renameField" =>
    /\ Len(NewItems) = Len(OldItems)
    /\ \A i \in 1..Len(OldItems) :
         \A k \in ItemKeys(OldItems[i]) \ {last.key} :
           ItemGet(NewItems[i], k) = ItemGet(OldItems[i], k)

\* C23: the editor leaves the form for the list only when a create/update
\* request succeeded (or the user pressed Back); a submit with metadata text
\* that is not valid JSON sends no request and stays on the form; a failed
\* request leaves the route and the entered data as they were.
C23_SubmitOrdering ==
  /\ (last.route = "form" /\ route = "list") => last.op \in {"saveDone", "back"}
  /\ (last.op = "submit" /\ ~JsonParses(last.metaJson)) =>
       saves = last.saves /\ route = "form" /\ last.toast = "error"
  /\ (last.op = "submit" /\ JsonParses(last.metaJson)) => route = "form"
  /\ last.op = "saveFailed" =>
       route = last.route /\ formData = last.formData /\ metaJson = last.metaJson

\* C23, amended: as above, but a failed request leaves the editor on the
\* form with the entered data when its status is not 401; a 401 leaves the
\* form.
C23_SubmitOrderingExcept401 ==
  /\ (last.route = "form" /\ route = "list") => last.op \in {"saveDone", "back"}
  /\ (last.op = "submit" /\ ~JsonParses(last.metaJson)) =>
       saves = last.saves /\ route = "form" /\ last.toast = "error"
  /\ (last.op = "submit" /\ JsonParses(last.metaJson)) => route = "form"
  /\ (last.op = "saveFailed" /\ last.status # 401) =>
       route = last.route /\ formData = last.formData /\ metaJson = last.metaJson
  /\ (last.op = "saveFailed" /\ last.status = 401) => route # "form"

C23_Witness ==
  /\ last.op = "saveFailed" /\ last.status = 500 /\ last.saves # {}
  /\ route = "form" /\ FormValid(formData) /\ formData = last.formData

\* C24: once the initial token check is done, isAuthenticated is true exactly
\* when localStorage holds a token.
C24_AuthMatchesToken ==
  ~isLoading => (isAuthenticated <=> token)

\* C25: after a response with status 401 the login form is eventually shown.
C25_LoginFormAfter401 ==
  (last.status = 401) ~> (Screen = "loginForm")

\* C26: the content of a protected route is rendered only while
\* isAuthenticated is true; while the initial token check is pending the
\* placeholder is rendered; and after a check that found no token, and after
\* logout, the application is on the login route.
C26_RouteGuard ==
  /\ Screen = "outlet" => isAuthenticated
  /\ (location = "/" /\ isLoading) => Screen = "loading"
  /\ Screen # "navigate"
  /\ last.op = "logout" => location = "/login"
  /\ (last.op = "authMount" /\ ~token) => location = "/login"

C26_Witness ==
  /\ last.op = "logout" /\ last.location = "/" /\ last.isAuthenticated
  /\ location = "/login" /\ Screen = "loginForm"

\* C27: a row leaves the displayed list only when its backend delete has
\* succeeded, a declined confirmation and a failed delete leave the list
\* unchanged, and a row whose delete succeeded is not in the displayed list,
\* also when deletes overlap.
C27_DeletedRowsStayDeleted ==
  /\ \A id \in RowSet(last.rows) \ RowSet(rows) : id \in deleted
  /\ last.op \in {"decline", "deleteFailed"} => rows = last.rows
  /\ \A id \in deleted : id \notin RowSet(rows)

\* C28: while the schema is non-empty, appending an item, removing an item
\* (the last remaining one included) and updating an item's field (by its
\* widget or by a finished upload) leave the schema as it was; after such an
\* operation the schema differs only if it was empty before.
C28_ItemOpsKeepSchema ==
  last.op \in {"addItem", "removeItem", "updateItem", "uploadDone", "uploadFailed"} =>
    /\ Len(last.schema) > 0 => schema = last.schema
    /\ schema # last.schema =>
         /\ Len(last.schema) = 0
         /\ schema = EffectSchema(Items(value), <<>>)

C28_Witness ==
  /\ impl = "shipped" /\ last.op = "removeItem"
  /\ Len(Items(last.value)) = 1 /\ Items(value) = <<>>
  /\ Len(last.schema) > 0 /\ last.schema # DefaultSchema
  /\ schema = last.schema /\ status = "mounted"

\* C29: a mounted media editor has at most one upload in flight: no upload
\* starts from an editor that is uploading, the url of an uploading editor is
\* not changed through its url input, and once the response of its upload
\* has arrived the editor is not uploading.
C29_OneUploadPerEditor ==
  /\ \A u1, u2 \in uploads :
       (u1.live /\ u2.live /\ u1.index = u2.index /\ u1.key = u2.key) => u1 = u2
  /\ last.op = "uploadStart" => ~last.uploading
  /\ (last.op = "updateItem" /\ last.type \in {"image", "video"} /\ last.uploading) =>
       Prop(last.val, kUrl) =
         GetKey(MediaData(Prop(Items(last.value)[last.idx], last.key)), kUrl)
  /\ (last.op \in {"uploadDone", "uploadFailed"} /\ last.upload.live) =>
       ~IsUploading(last.upload.index, last.upload.key)

\* a second upload started from an editor after the response of its first
C29_Witness ==
  /\ last.op = "uploadStart" /\ ~last.uploading
  /\ Cardinality(uploads) = 1
  /\ IsUploading(last.idx, last.key)
  /\ GetKey(MediaData(Prop(ElemAt(Items(value), last.idx), last.key)), kUrl)
       = Str(sUploadedUrl)

\* C30: when the JSON textarea of ValueEditors has just appeared (at mount,
\* by switching raw mode on, or by selecting type 'custom') its text is the
\* JSON serialisation of the current value.
C30_JsonTextShowsValue ==
  ( /\ dispatcher = "ValueEditors" /\ status = "mounted"
    /\ Widget(dispatcher, type, jsonMode, value) = "json"
    /\ value.t # "undefined"
    /\ \/ last.op = "mount"
       \/ last.op = "setJsonMode"
       \/ last.op = "changeType" /\ ~jsonMode )
  => internalJson = JSONStringify(value, <<>>)
====
